---- MODULE Spec2Model ----
(***************************************************************************)
(* Model of the jira_service custom component: the digest build of         *)
(* handle_jira (config/custom_components/jira_service/__init__.py) with    *)
(* its helpers, and the WebClient.get_user gateway call it awaits.         *)
(*                                                                         *)
(* Text is modelled as a sequence of tokens.  A token is a string: either  *)
(* one character ("a", "{", " ", "\n") or a literal piece of one of the    *)
(* f-string templates of the source ("Latest comment by"), which holds     *)
(* neither a brace nor a leading or trailing blank.  A Python dict is a    *)
(* record (a function on its keys), so a missing key is a key outside      *)
(* DOMAIN; Python's None is the value None; a call either returns          *)
(* (Ret(v)) or raises (Raise(e)).                                          *)
(***************************************************************************)
EXTENDS Integers, Sequences, FiniteSets, TLC

\* ------------------------------------------------------------- bounds
\* longest configured jira_account_ids string
MaxLen == 3
\* most issues in one search response
MaxIssues == 2
\* most issues over all the searches of one build
MaxTotal == 3
\* longest comment list of a ticket in the formatter's specification
MaxComments == 3
\* longest text sanitize_message is called with on its own
MaxText == 3

\* ------------------------------------------------------ Python values
None == [py |-> "None"]
\* a local variable before its first assignment
Unbound == [py |-> "unbound"]
\* a str where None may stand instead
Str(s) == [py |-> "str", chars |-> s]
Ret(v) == [tag |-> "ret", val |-> v]
Raise(e) == [tag |-> "raise", exc |-> e]
IsRet(r) == r.tag = "ret"
IsRaise(r) == r.tag = "raise"

\* ---------------------------------------------------- Python strings
\* code point of a character, as str comparison uses it
Ord(c) ==
  CASE c = " " -> 32
    [] c = "," -> 44
    [] c = "-" -> 45
    [] c = "0" -> 48
    [] c = "1" -> 49
    [] c = "2" -> 50
    [] c = "3" -> 51
    [] c = "4" -> 52
    [] c = "5" -> 53
    [] c = "6" -> 54
    [] c = "7" -> 55
    [] c = "8" -> 56
    [] c = "9" -> 57
    [] c = ":" -> 58
    [] c = "T" -> 84
    [] c = "a" -> 97
    [] c = "b" -> 98

\* s < t on str: the first differing character decides, a proper prefix is less
StrLess(s, t) ==
  LET n == IF Len(s) < Len(t) THEN Len(s) ELSE Len(t)
      diff == {i \in 1..n : s[i] # t[i]}
  IN IF diff = {}
       THEN Len(s) < Len(t)
       ELSE LET i == CHOOSE j \in diff : \A k \in diff : j <= k
            IN Ord(s[i]) < Ord(t[i])

\* s > t on str
StrGreater(s, t) == StrLess(t, s)

IsSpace(c) == c \in {" ", "\n"}

RECURSIVE LStrip(_)
LStrip(s) == IF s # <<>> /\ IsSpace(Head(s)) THEN LStrip(Tail(s)) ELSE s

\* str.rstrip()
RECURSIVE RStrip(_)
RStrip(s) ==
  IF s # <<>> /\ IsSpace(s[Len(s)]) THEN RStrip(SubSeq(s, 1, Len(s) - 1)) ELSE s

\* str.strip()
Strip(s) == LStrip(RStrip(s))

\* s[:n]
Prefix(s, n) == SubSeq(s, 1, IF n < Len(s) THEN n ELSE Len(s))

\* str.split(","): always at least one piece, empty pieces kept
RECURSIVE SplitAcc(_, _, _)
SplitAcc(s, cur, acc) ==
  IF s = <<>> THEN Append(acc, cur)
  ELSE IF Head(s) = "," THEN SplitAcc(Tail(s), <<>>, Append(acc, cur))
  ELSE SplitAcc(Tail(s), Append(cur, Head(s)), acc)

Split(s) == SplitAcc(s, <<>>, <<>>)

\* int() of a string of decimal digits
DigitVal(c) == Ord(c) - 48

RECURSIVE ParseInt(_)
ParseInt(s) ==
  IF s = <<>> THEN 0 ELSE 10 * ParseInt(SubSeq(s, 1, Len(s) - 1)) + DigitVal(s[Len(s)])

DigitChar(d) == CHOOSE c \in {"0", "1", "2", "3", "4", "5", "6", "7", "8", "9"} : DigitVal(c) = d

\* str() of a natural number: decimal, no leading zero
RECURSIVE IntStr(_)
IntStr(n) == IF n < 10 THEN <<DigitChar(n)>> ELSE IntStr(n \div 10) \o <<DigitChar(n % 10)>>

\* sorted(xs, key=lambda x: x["original_account_id"]): stable, and a KeyError
\* when an element has no such key (the key is computed for every element)
\* the insertion were equal keys to change places
RECURSIVE InsertBeforeEqual(_, _)
InsertBeforeEqual(sorted, x) ==
  IF sorted = <<>> THEN <<x>>
  ELSE LET last == sorted[Len(sorted)]
       IN IF ~StrLess(last.original_account_id, x.original_account_id)
            THEN Append(InsertBeforeEqual(SubSeq(sorted, 1, Len(sorted) - 1), x), last)
            ELSE Append(sorted, x)

RECURSIVE InsertByKey(_, _)
InsertByKey(sorted, x) ==
  IF sorted = <<>> THEN <<x>>
  ELSE LET last == sorted[Len(sorted)]
       IN IF StrLess(x.original_account_id, last.original_account_id)
            THEN Append(InsertByKey(SubSeq(sorted, 1, Len(sorted) - 1), x), last)
            ELSE Append(sorted, x)

RECURSIVE SortedAcc(_, _)
SortedAcc(xs, acc) ==
  IF xs = <<>> THEN acc ELSE SortedAcc(Tail(xs), InsertByKey(acc, Head(xs)))

\* the sort were it to keep one of several equal issues
RECURSIVE DropRepeats(_)
DropRepeats(xs) ==
  IF Len(xs) < 2 THEN xs
  ELSE IF xs[1] = xs[2] THEN DropRepeats(Tail(xs))
  ELSE <<xs[1]>> \o DropRepeats(Tail(xs))

SortedDistinctByAccountId(xs) ==
  IF \E i \in 1..Len(xs) : "original_account_id" \notin DOMAIN xs[i]
    THEN Raise("KeyError")
    ELSE Ret(DropRepeats(SortedAcc(xs, <<>>)))

SortedByAccountId(xs) ==
  IF \E i \in 1..Len(xs) : "original_account_id" \notin DOMAIN xs[i]
    THEN Raise("KeyError")
    ELSE Ret(SortedAcc(xs, <<>>))

\* ------------------------------------------------ pure helpers of __init__.py
\* the sanitizer were it to replace the opening brace only
sanitize_open_brace_only(message) ==
  [i \in 1..Len(message) |-> IF message[i] = "{" THEN "[" ELSE message[i]]

\* sanitize_message: "{" -> "[", then "}" -> "]"
sanitize_message(message) ==
  [i \in 1..Len(message) |->
     IF message[i] = "{" THEN "[" ELSE IF message[i] = "}" THEN "]" ELSE message[i]]

\* format_date were it to take 12 off the hour from noon on, not after noon
format_date_from_noon(date) ==
  LET hour0 == ParseInt(SubSeq(date, 12, 13))
      ampm == IF hour0 >= 12 THEN <<"P", "M">> ELSE <<"A", "M">>
      hour == IF hour0 >= 12 THEN hour0 - 12 ELSE IF hour0 < 1 THEN 12 ELSE hour0
      minute == SubSeq(date, 15, 16)
  IN SubSeq(date, 6, 7) \o <<"/">> \o SubSeq(date, 9, 10) \o <<"/">> \o SubSeq(date, 1, 4)
       \o <<" ">> \o IntStr(hour) \o <<":">> \o minute \o <<" ">> \o ampm

\* format_date: slices of the timestamp string, the hour turned to the 12-hour clock
format_date(date) ==
  LET hour0 == ParseInt(SubSeq(date, 12, 13))
      ampm == IF hour0 >= 12 THEN <<"P", "M">> ELSE <<"A", "M">>
      hour == IF hour0 > 12 THEN hour0 - 12 ELSE IF hour0 < 1 THEN 12 ELSE hour0
      minute == SubSeq(date, 15, 16)
  IN SubSeq(date, 6, 7) \o <<"/">> \o SubSeq(date, 9, 10) \o <<"/">> \o SubSeq(date, 1, 4)
       \o <<" ">> \o IntStr(hour) \o <<":">> \o minute \o <<" ">> \o ampm

\* the loop of get_latest_comment_from_current_user over the comments left,
\* st = [latest_comment, latest_timestamp]
RECURSIVE UserLoop(_, _, _)
UserLoop(comments, username, st) ==
  IF comments = <<>> THEN Ret(st.latest_comment)
  ELSE LET comment == Head(comments)
       IN IF "emailAddress" \notin DOMAIN comment.author
            THEN Raise("KeyError")
            ELSE LET author_email == comment.author.emailAddress
                     created_timestamp == comment.created
                     take == /\ author_email = username
                             /\ \/ st.latest_timestamp = None
                                \/ StrGreater(created_timestamp, st.latest_timestamp.chars)
                 IN UserLoop(Tail(comments), username,
                             IF take
                               THEN [latest_comment |-> comment,
                                     latest_timestamp |-> Str(created_timestamp)]
                               ELSE st)

\* the selector were it to trust the server's order: the last comment of the user
LastCommentOfUser(ticket_details, username) ==
  LET comments == ticket_details.fields.comment.comments
      own == {i \in 1..Len(comments) :
                /\ "emailAddress" \in DOMAIN comments[i].author
                /\ comments[i].author.emailAddress = username}
  IN IF \E i \in 1..Len(comments) : "emailAddress" \notin DOMAIN comments[i].author
       THEN Raise("KeyError")
       ELSE IF own = {} THEN Ret(None)
       ELSE Ret(comments[CHOOSE i \in own : \A j \in own : j <= i])

get_latest_comment_from_current_user(ticket_details, username) ==
  UserLoop(ticket_details.fields.comment.comments, username,
           [latest_comment |-> None, latest_timestamp |-> None])

\* the loop of get_latest_comment_from_current_account_id
RECURSIVE AccountLoop(_, _, _)
AccountLoop(comments, account_id, st) ==
  IF comments = <<>> THEN Ret(st.latest_comment)
  ELSE LET comment == Head(comments)
       IN IF "accountId" \notin DOMAIN comment.author
            THEN Raise("KeyError")
            ELSE LET author_account_id == comment.author.accountId
                     created_timestamp == comment.created
                     take == /\ author_account_id = account_id
                             /\ \/ st.latest_timestamp = None
                                \/ StrGreater(created_timestamp, st.latest_timestamp.chars)
                 IN AccountLoop(Tail(comments), account_id,
                                IF take
                                  THEN [latest_comment |-> comment,
                                        latest_timestamp |-> Str(created_timestamp)]
                                  ELSE st)

get_latest_comment_from_current_account_id(ticket_details, account_id) ==
  AccountLoop(ticket_details.fields.comment.comments, account_id,
              [latest_comment |-> None, latest_timestamp |-> None])

\* the comment format_ticket_details goes on with (lines 143-149): Ret(comment or
\* None), or the exception raised on the way
latest_comment_of(ticket_details, process_current_user_only, username, account_id) ==
  IF process_current_user_only
    THEN get_latest_comment_from_current_user(ticket_details, username)
    ELSE LET by_account == get_latest_comment_from_current_account_id(ticket_details, account_id)
             comments == ticket_details.fields.comment.comments
         IN IF IsRaise(by_account) THEN by_account
            ELSE IF comments = <<>> THEN Raise("IndexError")
            ELSE Ret(comments[Len(comments)])

\* the text of a selected comment (lines 152-160)
formatted_ticket_details(ticket_details, latest_comment, comment_length) ==
  <<"Status last changed:", " ">>
    \o format_date(ticket_details.fields.statuscategorychangedate) \o <<"\n">>
    \o <<"Latest comment by", " ">> \o latest_comment.author.displayName
    \o <<" ", "on", " ">> \o format_date(latest_comment.updated) \o <<"\n">>
    \o <<"Text:", " ">> \o Strip(Prefix(latest_comment.body, comment_length))
    \o <<"\n", "\n">>

\* format_ticket_details: Ret(text), or Raise: subscripting None is a TypeError
format_ticket_details(ticket_details, comment_length, process_current_user_only, username, account_id) ==
  IF ticket_details = None THEN Raise("TypeError")
  ELSE LET latest == latest_comment_of(ticket_details, process_current_user_only,
                                       username, account_id)
       IN IF IsRaise(latest) THEN latest
          ELSE IF latest.val = None THEN Ret(<<"N/A", "\n">>)
          ELSE Ret(formatted_ticket_details(ticket_details, latest.val, comment_length))

\* ------------------------------------------------------------- state
VARIABLES
  account_ids,         \* config jira_account_ids: None or Str(chars)
  pc,                  \* where handle_jira stands
  account_id_list,     \* get_jira_tickets: the roster after split and strip
  searches,            \* the searches made so far: [account_id, outcome, issues]
  data,                \* what get_jira_tickets returned (its result while it runs)
  sorted_issues,       \* handle_jira: the list it renders
  issue_i,             \* handle_jira: index of the next issue of the for loop
  message,             \* handle_jira: the text assembled so far
  current_account_id,  \* handle_jira: identity of the group being rendered
  user_lookups,        \* the account ids get_user was called with, in order
  user_data,           \* handle_jira: what get_user returned last (Unbound before)
  detail_lookups,      \* the detail fetches made so far: [key, ok]
  bulk_lookups,        \* the calls of get_bulk_users made so far: [ids, response]
  log,                 \* what _LOGGER received, in order
  state,               \* hass state jira_service.jira: None or [Summary |-> text]
  exception,           \* the exception that ended handle_jira, or None
  f_pc,                \* format_ticket_details called on its own: where it stands
  f_args,              \* its arguments
  f_latest,            \* the comment it selected: Ret(comment or None) or Raise
  f_result,            \* what it returned: Ret(text) or Raise
  h_pc,                \* a helper called on its own: where the call stands
  h_fn,                \* the helper called
  h_arg,               \* its argument
  h_result             \* what it returned

build_vars == <<account_ids, pc, account_id_list, searches, data, sorted_issues, issue_i,
                message, current_account_id, user_lookups, user_data, detail_lookups, bulk_lookups,
                log,
                state, exception>>
fmt_vars == <<f_pc, f_args, f_latest, f_result>>
helper_vars == <<h_pc, h_fn, h_arg, h_result>>
vars == <<build_vars, fmt_vars, helper_vars>>

\* ------------------------------------------------------- configuration
\* config username (also the caller's e-mail address)
username == "u@x"
\* config jira_base_url
baseurl == <<"h">>
\* config comment_length, at its default
comment_length == 80

\* --------------------------------------------- what the Jira server may answer
Pad2(n) == <<DigitChar(n \div 10), DigitChar(n % 10)>>
\* the first 16 characters of an ISO-8601 timestamp of 2024, all the code reads
Timestamp(mo, d, h, mi) ==
  <<"2", "0", "2", "4", "-">> \o Pad2(mo) \o <<"-">> \o Pad2(d) \o <<"T">> \o Pad2(h)
    \o <<":">> \o Pad2(mi)
T10 == Timestamp(1, 1, 10, 0)
T12 == Timestamp(1, 1, 12, 0)
T14 == Timestamp(1, 1, 14, 30)
Times == {T10, T12, T14}

\* comment authors: the configured user, another user, and a user whose e-mail
\* address the server withholds
Me == [accountId |-> <<"a">>, displayName |-> <<"A", "l">>, emailAddress |-> username]
Other == [accountId |-> <<"b">>, displayName |-> <<"B", "o">>, emailAddress |-> "v@x"]
Hidden == [accountId |-> <<"a", "b">>, displayName |-> <<"{", "C", "}">>]
Authors == {Me, Other, Hidden}

BodyAt(t) ==
  IF t = T10 THEN <<"h", "i">>
  ELSE IF t = T12 THEN <<" ", "{", "o", "k", "}", " ">>
  ELSE <<"[~accountid:a]">>

Comment(a, t) == [author |-> a, body |-> BodyAt(t), created |-> t, updated |-> t]
CommentPool == {Comment(a, t) : a \in Authors, t \in Times}

TicketDetails(comments) ==
  [fields |-> [statuscategorychangedate |-> Timestamp(3, 5, 0, 15),
               comment |-> [comments |-> comments]]]

SeqsUpTo(S, n) == UNION {[1..k -> S] : k \in 0..n}

\* ------------------------------- format_ticket_details called on its own
FmtArgs ==
  [ticket_details : {None} \cup {TicketDetails(cs) : cs \in SeqsUpTo(CommentPool, MaxComments)},
   process_current_user_only : {TRUE},
   account_id : {<<>>}]
  \cup
  [ticket_details : {None} \cup {TicketDetails(cs) : cs \in SeqsUpTo(CommentPool, MaxComments)},
   process_current_user_only : {FALSE},
   account_id : {<<"a">>, <<"b">>}]

BuildIdle ==
  /\ account_ids = None
  /\ pc = "idle"
  /\ account_id_list = <<>>
  /\ searches = <<>>
  /\ data = None
  /\ sorted_issues = <<>>
  /\ issue_i = 1
  /\ message = <<>>
  /\ current_account_id = <<>>
  /\ user_lookups = <<>>
  /\ user_data = Unbound
  /\ detail_lookups = <<>>
  /\ bulk_lookups = <<>>
  /\ log = <<>>
  /\ state = None
  /\ exception = None

FmtIdle ==
  /\ f_pc = "idle"
  /\ f_args = None
  /\ f_latest = None
  /\ f_result = None

HelperIdle ==
  /\ h_pc = "idle"
  /\ h_fn = ""
  /\ h_arg = <<>>
  /\ h_result = <<>>

FmtInit == BuildIdle /\ FmtIdle /\ HelperIdle

\* the call: the caller's arguments
FmtCall ==
  /\ f_pc = "idle"
  /\ \E a \in FmtArgs : f_args' = a
  /\ f_pc' = "called"
  /\ UNCHANGED <<f_latest, f_result, build_vars, helper_vars>>

\* the body of format_ticket_details, to its return or its exception
FmtReturn ==
  /\ f_pc = "called"
  /\ f_latest' = IF f_args.ticket_details = None THEN Raise("TypeError")
                 ELSE latest_comment_of(f_args.ticket_details,
                                        f_args.process_current_user_only,
                                        username, f_args.account_id)
  /\ f_result' = format_ticket_details(f_args.ticket_details, comment_length,
                                       f_args.process_current_user_only,
                                       username, f_args.account_id)
  /\ f_pc' = "returned"
  /\ UNCHANGED <<f_args, build_vars, helper_vars>>

FmtNext == FmtCall \/ FmtReturn

SpecFmt == FmtInit /\ [][FmtNext]_vars

\* ------------------------------------------------------- the digest build
\* the characters a configured jira_account_ids string is made of
ConfigChars == {"a", "b", ",", " "}

\* issues as a search returns them
Issue(key, status, summary) ==
  [key |-> key, fields |-> [status |-> [name |-> status], summary |-> summary]]
IssuePool ==
  {Issue("P-1", <<"Open">>, <<"F", "i", "x">>),
   Issue("P-2", <<"Done">>, <<"{", "x", "}">>)}

\* ticket details as the build's detail fetch returns them
DetailPool ==
  {TicketDetails(<<>>),
   TicketDetails(<<Comment(Me, T12), Comment(Other, T14)>>)}

\* the display name a user record carries
UserNames == {<<"{", "C", "}">>}

LogEntry(level, msg) == [level |-> level, msg |-> msg]
StatusError == LogEntry("error", "Failed to retrieve data from API. Status code: %s")
RequestError == LogEntry("error", "Error while making API request: %s")
BuildError == LogEntry("error", "Failed to retrieve data from API")
BuildInfo == LogEntry("info", "Identified Jiras: \n%s\n\n")

TypeError == [py |-> "TypeError"]
KeyError == [py |-> "KeyError"]
IndexError == [py |-> "IndexError"]
ExceptionOf(r) == [py |-> r.exc]

\* handle_jira line 40
process_current_user_only == account_ids = None \/ Len(account_ids.chars) = 0

\* get_jira_tickets line 218: the per-identity branch is taken
roster_branch == account_ids # None /\ Strip(account_ids.chars) # <<>>

\* get_jira_tickets line 219
account_id_list_of(s) == LET parts == Split(s) IN [i \in 1..Len(parts) |-> Strip(parts[i])]

\* a response: the request raised (no connection, no JSON), or it has a status
Ok(response) == ~response.raised /\ response.status = 200

\* get_jira_tickets lines 234-235: every issue of a response tagged
tag_issues(issues, account_id) ==
  [i \in 1..Len(issues) |->
     [key |-> issues[i].key, fields |-> issues[i].fields, original_account_id |-> account_id]]

\* a failed search were it to discard what the earlier identities returned
result_reset_on_failure(result, response, account_id) ==
  IF Ok(response)
    THEN [issues |-> result.issues \o tag_issues(response.issues, account_id)]
    ELSE [issues |-> <<>>]

\* get_jira_tickets lines 231-243: result after one identity's response; a status
\* other than 200 and an exception leave it as it is
result_after(result, response, account_id) ==
  IF Ok(response)
    THEN [issues |-> result.issues \o tag_issues(response.issues, account_id)]
    ELSE result

\* the log were a status other than 200 to pass without an entry
log_after_exceptions_only(lg, response) ==
  IF ~Ok(response) /\ response.raised THEN Append(lg, RequestError) ELSE lg

\* what _LOGGER gets for a response of a search or of a detail fetch
log_after(lg, response) ==
  IF Ok(response) THEN lg
  ELSE IF response.raised THEN Append(lg, RequestError)
  ELSE Append(lg, StatusError)

\* a header only while no group is open yet
new_group_first_only(current, issue) == ~process_current_user_only /\ current = <<>>

\* handle_jira lines 53-56: the issue opens a new group
new_group(current, issue) ==
  ~process_current_user_only /\ current # issue.original_account_id

\* handle_jira lines 63-66, without the line break
ticket_line(issue) ==
  <<"*<">> \o baseurl \o <<"/browse/", issue.key, "|", issue.key, ">*">>
    \o <<" ", "-", " ", "Status:", " ", "*">> \o issue.fields.status.name
    \o <<"*", " ", "-", " ">> \o issue.fields.summary

\* handle_jira line 61, without the line break
header_line(user) == <<"*">> \o user.displayName \o <<"'s tickets:*">>

\* the end of the build were it to append the line break without the trim
final_message_untrimmed(msg) == sanitize_message(msg) \o <<"\n">>

\* handle_jira lines 79-80
final_message(msg) == RStrip(sanitize_message(msg)) \o <<"\n">>

\* what the server may answer to a search.  The JQL built for an empty roster
\* entry ("assignee was  AND updated >= ...") has no operand: the server rejects it.
SearchResponses(account_id, room) ==
  {[raised |-> FALSE, status |-> 400, issues |-> <<>>],
   [raised |-> TRUE, status |-> 0, issues |-> <<>>]}
  \cup (IF account_id = Str(<<>>) THEN {}
        ELSE {[raised |-> FALSE, status |-> 200, issues |-> is] :
                is \in SeqsUpTo(IssuePool, IF room < MaxIssues THEN room ELSE MaxIssues)})

\* what the server may answer to a detail fetch
DetailResponses ==
  {[raised |-> FALSE, status |-> 400, json |-> None],
   [raised |-> TRUE, status |-> 0, json |-> None]}
  \cup {[raised |-> FALSE, status |-> 200, json |-> d] : d \in DetailPool}

\* what the server may answer to a user lookup
UserResponses(account_id) ==
  {[raised |-> FALSE, status |-> 400, json |-> None],
   [raised |-> TRUE, status |-> 0, json |-> None]}
  \cup {[raised |-> FALSE, status |-> 200, json |-> [accountId |-> account_id, displayName |-> n]] :
          n \in UserNames}

Init ==
  /\ account_ids \in {None} \cup {Str(s) : s \in SeqsUpTo(ConfigChars, MaxLen)}
  /\ pc = "start"
  /\ account_id_list = <<>>
  /\ searches = <<>>
  /\ data = None
  /\ sorted_issues = <<>>
  /\ issue_i = 1
  /\ message = <<>>
  /\ current_account_id = <<>>
  /\ user_lookups = <<>>
  /\ user_data = Unbound
  /\ detail_lookups = <<>>
  /\ bulk_lookups = <<>>
  /\ log = <<>>
  /\ state = None
  /\ exception = None
  /\ FmtIdle
  /\ HelperIdle

\* handle_jira ends with an unhandled exception
Crash(exc, msg, lg) ==
  /\ pc' = "crashed"
  /\ exception' = exc
  /\ message' = msg
  /\ log' = lg
  /\ UNCHANGED <<issue_i, state>>

\* handle_jira from the top of the for loop: the next iteration or, the loop over,
\* lines 79-88
Proceed(next_i, issues, d, msg, lg) ==
  /\ exception' = exception
  /\ issue_i' = next_i
  /\ IF next_i <= Len(issues)
       THEN /\ pc' = "loop"
            /\ message' = msg
            /\ log' = lg
            /\ state' = state
       ELSE /\ pc' = "done"
            /\ message' = final_message(msg)
            /\ IF d # None
                 THEN /\ log' = Append(lg, BuildInfo)
                      /\ state' = [Summary |-> final_message(msg)]
                 ELSE /\ log' = Append(lg, BuildError)
                      /\ state' = state

\* handle_jira lines 43-51 on what get_jira_tickets returned, then the loop
AfterFetch(d, lg) ==
  /\ data' = d
  /\ IF d = None
       THEN sorted_issues' = <<>> /\ Crash(TypeError, <<>>, lg)
       ELSE IF process_current_user_only
         THEN sorted_issues' = d.issues /\ Proceed(1, d.issues, d, <<>>, lg)
         ELSE LET r == SortedByAccountId(d.issues)
              IN IF IsRaise(r)
                   THEN sorted_issues' = <<>> /\ Crash(ExceptionOf(r), <<>>, lg)
                   ELSE sorted_issues' = r.val /\ Proceed(1, r.val, d, <<>>, lg)

\* handle_jira lines 26-42 and get_jira_tickets lines 216-220: the service call,
\* up to the first request
handle_jira ==
  /\ pc = "start"
  /\ IF roster_branch
       THEN /\ account_id_list' = account_id_list_of(account_ids.chars)
            /\ data' = [issues |-> <<>>]
            /\ pc' = "search"
       ELSE /\ account_id_list' = <<>>
            /\ data' = None
            /\ pc' = "search_self"
  /\ UNCHANGED <<account_ids, bulk_lookups, user_data, searches, sorted_issues, issue_i, message,
                 current_account_id,
                 user_lookups, detail_lookups, log, state, exception, fmt_vars, helper_vars>>

\* get_jira_tickets lines 222-245: one identity's search and its response; after the
\* last identity the function returns and handle_jira goes on
get_jira_tickets_roster ==
  /\ pc = "search"
  /\ LET account_id == account_id_list[Len(searches) + 1]
     IN \E response \in SearchResponses(Str(account_id), MaxTotal - Len(data.issues)) :
          /\ searches' = Append(searches, [account_id |-> Str(account_id), response |-> response])
          /\ IF Len(searches) + 1 < Len(account_id_list)
               THEN /\ data' = result_after(data, response, account_id)
                    /\ log' = log_after(log, response)
                    /\ UNCHANGED <<pc, sorted_issues, issue_i, message, state, exception>>
               ELSE AfterFetch(result_after(data, response, account_id),
                               log_after(log, response))
  /\ UNCHANGED <<account_ids, bulk_lookups, user_data, account_id_list, current_account_id,
                 user_lookups, detail_lookups, fmt_vars, helper_vars>>

\* get_jira_tickets lines 247-266: the search for the current user; the response's
\* JSON is returned as it is, a failure returns None; handle_jira goes on
get_jira_tickets_self ==
  /\ pc = "search_self"
  /\ \E response \in SearchResponses(None, MaxTotal) :
       /\ searches' = Append(searches, [account_id |-> None, response |-> response])
       /\ AfterFetch(IF Ok(response) THEN [issues |-> response.issues] ELSE None,
                     log_after(log, response))
  /\ UNCHANGED <<account_ids, bulk_lookups, user_data, account_id_list, current_account_id,
                 user_lookups, detail_lookups, fmt_vars, helper_vars>>

\* WebClient.get_user: the user record on status 200; otherwise the error is logged
\* (a status other than 200 raises inside the try, and the except logs again) and
\* the method falls off its end: None
get_user(response) == IF Ok(response) THEN response.json ELSE None

get_user_log(lg, response) ==
  IF Ok(response) THEN lg
  ELSE IF response.raised THEN Append(lg, RequestError)
  ELSE Append(Append(lg, StatusError), RequestError)

\* handle_jira lines 53-61: a new group: separator, user lookup, header
render_header ==
  /\ pc = "loop"
  /\ new_group(current_account_id, sorted_issues[issue_i])
  /\ LET issue == sorted_issues[issue_i]
         msg == IF current_account_id # <<>> THEN Append(message, "\n") ELSE message
     IN /\ current_account_id' = issue.original_account_id
        /\ user_lookups' = Append(user_lookups, issue.original_account_id)
        /\ \E response \in UserResponses(issue.original_account_id) :
             LET returned == get_user(response)
                 lg == get_user_log(log, response)
             IN /\ user_data' = returned
                /\ IF returned = None
                     THEN Crash(TypeError, msg, lg)
                     ELSE /\ message' = msg \o header_line(returned) \o <<"\n">>
                          /\ log' = lg
                          /\ UNCHANGED <<pc, issue_i, state, exception>>
  /\ UNCHANGED <<account_ids, bulk_lookups, account_id_list, searches, data, sorted_issues,
                 detail_lookups, fmt_vars, helper_vars>>

\* get_jira_ticket_details: the JSON on status 200, None otherwise
get_jira_ticket_details(response) == IF Ok(response) THEN response.json ELSE None

\* handle_jira lines 63-77: the ticket's line, its detail fetch and its details;
\* after the last ticket lines 79-88
render_ticket ==
  /\ pc = "loop"
  /\ ~new_group(current_account_id, sorted_issues[issue_i])
  /\ LET issue == sorted_issues[issue_i]
         msg == message \o ticket_line(issue) \o <<"\n">>
     IN /\ \E response \in DetailResponses :
             LET ticket_details == get_jira_ticket_details(response)
                 lg == log_after(log, response)
                 text == format_ticket_details(ticket_details, comment_length,
                                               process_current_user_only, username,
                                               current_account_id)
             IN /\ detail_lookups' = Append(detail_lookups,
                                              [key |-> issue.key, ok |-> Ok(response)])
                /\ IF IsRaise(text)
                     THEN Crash(ExceptionOf(text), msg, lg)
                     ELSE Proceed(issue_i + 1, sorted_issues, data, msg \o text.val, lg)
  /\ UNCHANGED <<account_ids, bulk_lookups, user_data, account_id_list, searches, data,
                 sorted_issues,
                 current_account_id, user_lookups, fmt_vars, helper_vars>>

Next ==
  \/ handle_jira
  \/ get_jira_tickets_roster
  \/ get_jira_tickets_self
  \/ render_header
  \/ render_ticket

Spec == Init /\ [][Next]_vars

\* ------------------------------------------ helpers called on their own
\* the characters of the texts sanitize_message is called with
TextChars == {"{", "}", "[", "]", "a"}

\* handle_jira is not running: a helper is called directly
HelperInit == BuildIdle /\ FmtIdle /\ HelperIdle

\* sanitize_message(message)
sanitize_message_call ==
  /\ pc = "idle"
  /\ h_pc = "idle"
  /\ \E message_in \in SeqsUpTo(TextChars, MaxText) :
       /\ h_arg' = message_in
       /\ h_result' = sanitize_message(message_in)
  /\ h_fn' = "sanitize_message"
  /\ h_pc' = "returned"
  /\ UNCHANGED <<build_vars, fmt_vars>>

\* sanitize_message(sanitize_message(message)): the call on the result of a call
sanitize_message_again ==
  /\ h_pc = "returned"
  /\ h_fn = "sanitize_message"
  /\ h_arg' = h_result
  /\ h_result' = sanitize_message(h_result)
  /\ h_pc' = "returned again"
  /\ UNCHANGED <<h_fn, build_vars, fmt_vars>>

\* the digest build, or sanitize_message on its own
TextNext == Next \/ sanitize_message_call \/ sanitize_message_again
SpecText == (Init \/ HelperInit) /\ [][TextNext]_vars

\* the timestamps format_date is called with: every hour of the day
DateArg(y, mo, d, h, mi) ==
  IntStr(y) \o <<"-">> \o Pad2(mo) \o <<"-">> \o Pad2(d) \o <<"T">> \o Pad2(h)
    \o <<":">> \o Pad2(mi) \o <<":", "0", "0", ".", "0", "0", "0", "+", "0", "0", "0", "0">>
Years == {1999, 2024}
Months == {3, 12}
Days == {5, 31}
Hours == 0..23
Minutes == {0, 15, 59}

\* format_date(date)
format_date_call ==
  /\ pc = "idle"
  /\ h_pc = "idle"
  /\ \E y \in Years, mo \in Months, d \in Days, h \in Hours, mi \in Minutes :
       /\ h_arg' = DateArg(y, mo, d, h, mi)
       /\ h_result' = format_date(DateArg(y, mo, d, h, mi))
  /\ h_fn' = "format_date"
  /\ h_pc' = "returned"
  /\ UNCHANGED <<build_vars, fmt_vars>>

SpecDate == HelperInit /\ [][format_date_call]_vars

\* =================================================================== claims
\* ---- vocabulary of the claims about comment selection
FComments == f_args.ticket_details.fields.comment.comments
FReturned == f_pc = "returned" /\ f_args.ticket_details # None
HasEmail(c) == "emailAddress" \in DOMAIN c.author
\* the comments of list cs written by the user with e-mail address u
OwnByEmail(cs, u) == {i \in 1..Len(cs) : HasEmail(cs[i]) /\ cs[i].author.emailAddress = u}
\* the comments of list cs written by account a
OwnByAccount(cs, a) == {i \in 1..Len(cs) : cs[i].author.accountId = a}
\* no comment at an index of own was created after c
LatestAmong(c, cs, own) == \A i \in own : ~StrLess(c.created, cs[i].created)
NotApplicable == <<"N/A", "\n">>
RemoveAt(cs, drop) ==
  LET F[i \in 0..Len(cs)] ==
        IF i = 0 THEN <<>> ELSE IF i \in drop THEN F[i - 1] ELSE Append(F[i - 1], cs[i])
  IN F[Len(cs)]

\* C4: in roster mode the comment format_ticket_details renders is written by the
\* current group's account id and is the latest created of that account's comments;
\* a comment of another author is never rendered.
C4_RosterRendersLatestOwnComment ==
  (/\ FReturned
   /\ ~f_args.process_current_user_only
   /\ IsRet(f_result)
   /\ f_result.val # NotApplicable)
  => \E i \in OwnByAccount(FComments, f_args.account_id) :
       /\ LatestAmong(FComments[i], FComments, OwnByAccount(FComments, f_args.account_id))
       /\ f_result.val = formatted_ticket_details(f_args.ticket_details, FComments[i],
                                                  comment_length)

\* C5: in both modes, a ticket none of whose comments matches the authorship filter
\* (an empty comment list included) is formatted as exactly "N/A\n": no empty block,
\* no other author's comment, no exception.
C5_NoMatchIsNotApplicable ==
  (/\ FReturned
   /\ IF f_args.process_current_user_only
        THEN OwnByEmail(FComments, username) = {}
        ELSE OwnByAccount(FComments, f_args.account_id) = {})
  => f_result = Ret(NotApplicable)

\* C6: in self mode, whatever the order of the comment list, what
\* get_latest_comment_from_current_user returns is None exactly when no comment has
\* the user's e-mail address, and otherwise a comment of the list with exactly that
\* address that no other comment with that address was created after; a later
\* comment of another author is never returned.
C6_SelfSelectsLatestOwnComment ==
  (/\ FReturned
   /\ f_args.process_current_user_only
   /\ IsRet(f_latest))
  => /\ (f_latest.val = None) <=> (OwnByEmail(FComments, username) = {})
     /\ f_latest.val # None =>
          \E i \in OwnByEmail(FComments, username) :
            /\ f_latest.val = FComments[i]
            /\ LatestAmong(FComments[i], FComments, OwnByEmail(FComments, username))

\* an unsorted list with a later comment of another author: the user's comment of
\* 12:00 is selected, neither the one of 10:00 after it nor the other's of 14:30
C6_Witness ==
  /\ FReturned
  /\ f_args.process_current_user_only
  /\ FComments = <<Comment(Me, T12), Comment(Me, T10), Comment(Other, T14)>>
  /\ f_latest = Ret(Comment(Me, T12))

\* C7: in self mode a comment whose author has no e-mail address is left out of the
\* selection: the selector returns what it returns for the list without those
\* comments, and never raises.
C7_MissingEmailIsExcluded ==
  (/\ FReturned
   /\ f_args.process_current_user_only)
  => f_latest =
       get_latest_comment_from_current_user(
         TicketDetails(RemoveAt(FComments, {i \in 1..Len(FComments) : ~HasEmail(FComments[i])})),
         username)

\* ---- vocabulary of the claims about the build
\* the members of a set of indices, in increasing order
InOrder(S) ==
  [k \in 1..Cardinality(S) |-> CHOOSE i \in S : Cardinality({j \in S : j < i}) = k - 1]
\* the lines of a text, each without its line break
LinesOf(text) ==
  LET n == Len(text)
      breaks == {i \in 1..n : text[i] = "\n"}
      starts == InOrder(({1} \cup {i + 1 : i \in breaks}) \cap 1..n)
      EndOf(from) == CHOOSE e \in breaks \cup {n + 1} :
                       e >= from /\ \A f \in breaks \cup {n + 1} : f >= from => e <= f
  IN [k \in 1..Len(starts) |-> SubSeq(text, starts[k], EndOf(starts[k]) - 1)]
IsTicketLine(l) == l # <<>> /\ l[1] = "*<"
IsHeaderLine(l) == l # <<>> /\ l[1] = "*" /\ l[Len(l)] = "'s tickets:*"
TicketLineAt(lines) == InOrder({i \in 1..Len(lines) : IsTicketLine(lines[i])})
HeaderLineAt(lines) == InOrder({i \in 1..Len(lines) : IsHeaderLine(lines[i])})
TicketLines(lines) == [k \in 1..Len(TicketLineAt(lines)) |-> lines[TicketLineAt(lines)[k]]]
Count(seq, x) == Cardinality({i \in 1..Len(seq) : seq[i] = x})
SameBag(xs, ys) ==
  /\ Len(xs) = Len(ys)
  /\ \A i \in 1..Len(xs) : Count(xs, xs[i]) = Count(ys, xs[i])
Digest == state.Summary
Published == pc = "done" /\ state # None
\* get_jira_tickets took the per-identity branch and has returned
RosterFetched == roster_branch /\ pc \notin {"start", "search"}
\* the for loop of handle_jira has made a request
RenderingBegun == user_lookups # <<>> \/ detail_lookups # <<>>
\* handle_jira is past its sort (a crash after it is a crash of the rendering)
RosterSorted ==
  /\ ~process_current_user_only
  /\ \/ pc \in {"loop", "done"}
     \/ pc = "crashed" /\ RenderingBegun
IdOf(issue) == issue.original_account_id

\* C1: in roster mode get_jira_tickets queries every identity of the roster, in
\* order, whatever the earlier searches ended as (status 200, another status, an
\* exception); its result holds exactly the issues of the successful searches, in
\* roster order, each tagged with the identity it was fetched for; a failed
\* identity adds nothing, and no exception leaves the function.
C1_RosterFetchAbsorbsFailures ==
  LET Fetched[i \in 0..Len(searches)] ==
        IF i = 0 THEN <<>>
        ELSE LET r == searches[i].response
             IN Fetched[i - 1] \o
                  (IF ~r.raised /\ r.status = 200
                     THEN [j \in 1..Len(r.issues) |->
                             [key |-> r.issues[j].key, fields |-> r.issues[j].fields,
                              original_account_id |-> searches[i].account_id.chars]]
                     ELSE <<>>)
  IN (roster_branch /\ pc # "start") =>
       /\ \A i \in 1..Len(searches) : searches[i].account_id = Str(account_id_list[i])
       /\ data # None
       /\ data.issues = Fetched[Len(searches)]
       /\ pc # "search" => Len(searches) = Len(account_id_list)
       /\ pc = "crashed" => RenderingBegun

\* the roster "b,a": the search for b fails, the search for a is still made and
\* returns one ticket, the result is that ticket tagged a
C1_Witness ==
  /\ RosterFetched
  /\ account_id_list = <<<<"b">>, <<"a">>>>
  /\ Len(searches) = 2
  /\ searches[1].response.status = 400
  /\ Len(data.issues) = 1
  /\ data.issues[1].original_account_id = <<"a">>

\* C2: in self mode, when the search for the current user fails, handle_jira ends
\* by reporting the failure ("Failed to retrieve data from API"), publishes no
\* digest, and does not end with an unhandled exception.
C2_SelfSearchFailureIsReported ==
  (/\ ~roster_branch
   /\ process_current_user_only
   /\ searches # <<>>
   /\ ~Ok(searches[1].response))
  => /\ pc = "done"
     /\ exception = None
     /\ state = None
     /\ log # <<>> /\ log[Len(log)] = BuildError

\* C3: a ticket whose detail fetch fails does not end the build: the build
\* completes and publishes, and in the digest the ticket's line is followed by the
\* single line "N/A".
C3_DetailFailureIsNotApplicable ==
  \A k \in 1..Len(detail_lookups) :
    ~detail_lookups[k].ok =>
      /\ pc # "crashed"
      /\ Published =>
           LET lines == LinesOf(Digest)
               at == TicketLineAt(lines)
           IN /\ k <= Len(at)
              /\ at[k] < Len(lines)
              /\ lines[at[k] + 1] = <<"N/A">>

\* C8: a completed build's digest has exactly one ticket line (key, status, summary)
\* for every ticket of the merged fetch result, in the order of the list the build
\* renders: none is dropped and none is merged with another of the same key.
C8_OneTicketLinePerFetchedTicket ==
  pc = "done" =>
    /\ Published
    /\ SameBag(sorted_issues, data.issues)
    /\ process_current_user_only => sorted_issues = data.issues
    /\ TicketLines(LinesOf(Digest))
         = [i \in 1..Len(sorted_issues) |-> sanitize_message(ticket_line(sorted_issues[i]))]

\* one ticket key returned for two roster entries: two ticket lines
C8_Witness ==
  /\ Published
  /\ Len(account_id_list) = 2
  /\ Len(sorted_issues) = 2
  /\ sorted_issues[1].key = sorted_issues[2].key
  /\ IdOf(sorted_issues[1]) # IdOf(sorted_issues[2])
  /\ Len(TicketLines(LinesOf(Digest))) = 2

C9_WitnessSelf ==
  /\ Published
  /\ process_current_user_only
  /\ Len(sorted_issues) = 2
  /\ user_lookups = <<>>

\* C10: in roster mode the list handle_jira renders is the merged fetch result
\* rearranged into non-decreasing original_account_id order, two tickets of one
\* identity keeping the order they were fetched in; so the order of the groups
\* follows from the identities, not from the order of the roster.
C10_RenderedListIsStableSort ==
  RosterSorted =>
    LET n == Len(data.issues)
    IN /\ Len(sorted_issues) = n
       /\ \E p \in [1..n -> 1..n] :
            /\ \A i, j \in 1..n : i # j => p[i] # p[j]
            /\ \A i \in 1..n : sorted_issues[i] = data.issues[p[i]]
            /\ \A i, j \in 1..n : i < j =>
                 /\ ~StrLess(IdOf(sorted_issues[j]), IdOf(sorted_issues[i]))
                 /\ IdOf(sorted_issues[i]) = IdOf(sorted_issues[j]) => p[i] < p[j]

\* the roster "b,a": b's ticket was fetched first and is rendered last, and a's two
\* tickets keep their order
C10_Witness ==
  /\ RosterSorted
  /\ account_id_list = <<<<"b">>, <<"a">>>>
  /\ Len(data.issues) = 3
  /\ IdOf(data.issues[1]) = <<"b">>
  /\ data.issues[2].key # data.issues[3].key
  /\ sorted_issues = <<data.issues[2], data.issues[3], data.issues[1]>>

\* ---- vocabulary of the claim about reference tokens
\* a token of the shape [~accountid:<id>], as comment bodies carry it
IsReferenceToken(c) == c \in {"[~accountid:a]"}
ReferenceTokenAt(text) == {i \in 1..Len(text) : IsReferenceToken(text[i])}

\* C11: a published digest holds no reference token [~accountid:<id>] any more,
\* each being replaced by the display name of <id>, unless the one batched user
\* lookup of the build failed or returned no record for <id>: a token is left in
\* the digest only after exactly one call of get_bulk_users, and that one failed or
\* lacked the record.
C11_ReferenceTokensAreResolved ==
  (Published /\ ReferenceTokenAt(Digest) # {})
  => /\ Len(bulk_lookups) = 1
     /\ \/ ~Ok(bulk_lookups[1].response)
        \/ <<"a">> \notin bulk_lookups[1].response.ids

\* ---- vocabulary of the claims about the helpers
BraceFree(text) == \A i \in 1..Len(text) : text[i] \notin {"{", "}"}
Sanitized(c) == IF c = "{" THEN "[" ELSE IF c = "}" THEN "]" ELSE c
SanitizeReturned == h_fn = "sanitize_message" /\ h_pc \in {"returned", "returned again"}

\* C12: whatever text sanitize_message is called with, its result has no "{" and
\* no "}", has "[" where the text has "{" and "]" where it has "}" and the text's
\* character everywhere else, and calling it on its own result returns that result
\* unchanged; and no published digest holds a "{" or a "}".
C12_SanitizeIsIdempotentAndBraceFree ==
  /\ SanitizeReturned
       => /\ BraceFree(h_result)
          /\ Len(h_result) = Len(h_arg)
          /\ \A i \in 1..Len(h_arg) : h_result[i] = Sanitized(h_arg[i])
          /\ h_pc = "returned again" => h_result = h_arg
  /\ Published => BraceFree(Digest)

\* sanitize_message has returned for a text with both braces and another character
C12_Witness ==
  /\ h_fn = "sanitize_message"
  /\ h_pc = "returned"
  /\ \E i, j, k \in 1..Len(h_arg) : h_arg[i] = "{" /\ h_arg[j] = "}" /\ h_arg[k] = "a"

\* it has returned again, for a result that had braces replaced
C12_WitnessAgain ==
  /\ h_fn = "sanitize_message"
  /\ h_pc = "returned again"
  /\ \E i, j \in 1..Len(h_arg) : h_arg[i] = "[" /\ h_arg[j] = "]"

\* a digest is published whose tickets carry braces in a summary and in a display name
C12_WitnessDigest ==
  /\ Published
  /\ \E i \in 1..Len(sorted_issues) : ~BraceFree(sorted_issues[i].fields.summary)
  /\ user_lookups # <<>>

\* ---- vocabulary of the claim about the end of the digest
TicketsRendered == detail_lookups # <<>>
EndsWithOneNewline(text) ==
  /\ text # <<>>
  /\ text[Len(text)] = "\n"
  /\ Len(text) >= 2 => ~IsSpace(text[Len(text) - 1])

\* C13 as stated: every published digest ends with exactly one newline character,
\* and the character right before it is not whitespace; a digest of a build that
\* rendered a ticket does not begin with a blank line.
C13_DigestEndsAfterNonWhitespace ==
  Published
  => /\ Len(Digest) >= 2
     /\ Digest[Len(Digest)] = "\n"
     /\ ~IsSpace(Digest[Len(Digest) - 1])
     /\ TicketsRendered => Digest[1] # "\n"

\* C13 as amended: every published digest ends with exactly one newline character
\* and has no other whitespace at its end; the digest of a build that rendered a
\* ticket has a non-whitespace character right before that newline and does not
\* begin with a blank line, and the digest of a build without tickets is the
\* newline alone.
C13_DigestEndsWithOneNewline ==
  Published
  => /\ EndsWithOneNewline(Digest)
     /\ TicketsRendered => Len(Digest) >= 2 /\ Digest[1] # "\n"
     /\ ~TicketsRendered => Digest = <<"\n">>

\* a digest is published whose last ticket ends with a rendered comment, that is
\* with the two line breaks the trim has to remove
C13_Witness ==
  /\ Published
  /\ TicketsRendered
  /\ \E i \in 1..Len(Digest) :
       /\ Digest[i] = "Text:"
       /\ \A j \in i..Len(Digest) : Digest[j] # "*<"

\* a digest is published by a build that found no ticket
C13_WitnessEmpty == Published /\ ~TicketsRendered /\ searches # <<>>

\* ---- vocabulary of the claim about format_date
\* a number below 100 in decimal digits, with and without the leading zero
TwoDigits(n) == <<DigitChar(n \div 10), DigitChar(n % 10)>>
NoLeadingZero(n) == IF n < 10 THEN <<DigitChar(n)>> ELSE TwoDigits(n)
FourDigits(n) == TwoDigits(n \div 100) \o TwoDigits(n % 100)
\* the hour of the 12-hour clock
ClockHour(H) == IF H = 0 THEN 12 ELSE IF H <= 12 THEN H ELSE H - 12
DateReturned == h_fn = "format_date" /\ h_pc = "returned"

C14_WitnessMidnight ==
  /\ DateReturned
  /\ h_arg = DateArg(2024, 3, 5, 0, 15)
  /\ h_result = <<"0", "3", "/", "0", "5", "/", "2", "0", "2", "4", " ", "1", "2", ":",
                  "1", "5", " ", "A", "M">>
C14_WitnessAfternoon ==
  /\ DateReturned
  /\ h_arg = DateArg(1999, 12, 31, 23, 59)
  /\ h_result = <<"1", "2", "/", "3", "1", "/", "1", "9", "9", "9", " ", "1", "1", ":",
                  "5", "9", " ", "P", "M">>

\* C15: WebClient.get_user hands a failed lookup (a status other than 200, a failed
\* request) to its caller as an exception, never as a return value: the user_data
\* of handle_jira is never the None of a failed lookup, and a build that a failed
\* lookup has ended has not ended by the TypeError of subscripting that None.
C15_GetUserFailureIsRaised ==
  /\ user_data # None
  /\ (pc = "crashed" /\ user_lookups # <<>> /\ detail_lookups = <<>>) => exception # TypeError

\* ---- vocabulary of the claim about the log
FailedSearches == {i \in 1..Len(searches) : ~Ok(searches[i].response)}
FailedDetails == {i \in 1..Len(detail_lookups) : ~detail_lookups[i].ok}
ErrorsIn(lg) == {i \in 1..Len(lg) : lg[i].level = "error"}
\* the step appends an error entry to the log
LogsError ==
  /\ Len(log') > Len(log)
  /\ SubSeq(log', 1, Len(log)) = log
  /\ log'[Len(log) + 1].level = "error"
SearchFails ==
  /\ roster_branch
  /\ Len(searches') = Len(searches) + 1
  /\ ~Ok(searches'[Len(searches')].response)
DetailFetchFails ==
  /\ Len(detail_lookups') = Len(detail_lookups) + 1
  /\ ~detail_lookups'[Len(detail_lookups')].ok

\* C16: the step in which a roster identity's search fails, and the step in which a
\* ticket's detail fetch fails (a status other than 200 or an exception), appends an
\* error entry to the log, so the entry is there before the build goes on; at any
\* time the log holds at least one error entry per failed search and failed detail
\* fetch, and it holds none when every request so far has succeeded.
C16_AbsorbedFailuresAreLogged ==
  /\ [][(SearchFails \/ DetailFetchFails) => LogsError]_vars
  /\ [](/\ Cardinality(ErrorsIn(log)) >= Cardinality(FailedSearches) + Cardinality(FailedDetails)
        /\ (FailedSearches = {} /\ FailedDetails = {} /\ user_data # None)
             => ErrorsIn(log) = {})

\* a build has published its digest although the search of a roster identity
\* failed, and the log holds the error
C16_Witness ==
  /\ Published
  /\ roster_branch
  /\ FailedSearches # {}
  /\ TicketsRendered
  /\ ErrorsIn(log) # {}

\* a detail fetch has failed and the log holds its error
C16_WitnessDetail == FailedDetails # {} /\ FailedSearches = {} /\ ErrorsIn(log) # {}

\* ---- vocabulary of the claim about the two mode decisions
Fetched == pc \in {"loop", "done", "crashed"} /\ data # None
Tagged(issue) == "original_account_id" \in DOMAIN issue

\* C17: whatever jira_account_ids is configured (None, the empty string, blanks, a
\* comma-separated list), once get_jira_tickets has returned its result handle_jira
\* takes the build for a roster build exactly when get_jira_tickets took the
\* per-identity branch: every issue it sorts and groups as a roster build carries
\* an original_account_id, no issue of a self build carries one, and the sort never
\* ends the build with a KeyError.
C17_ModeDecisionsAgree ==
  Fetched
  => /\ ~process_current_user_only <=> roster_branch
     /\ ~process_current_user_only => \A i \in 1..Len(data.issues) : Tagged(data.issues[i])
     /\ process_current_user_only => \A i \in 1..Len(data.issues) : ~Tagged(data.issues[i])
     /\ exception # KeyError

\* the build of a jira_account_ids of blanks has ended in the sort
C17_WitnessBlankRoster ==
  /\ pc = "crashed"
  /\ exception = KeyError
  /\ account_ids = Str(<<" ">>)
  /\ Len(data.issues) > 0

====
